---- MODULE Spec2Model ----
(***************************************************************************)
(* Model of crates/ra_ssr: parsing of structural search-and-replace rules  *)
(* (parsing.rs) and rendering of matches into text edits (replacing.rs).   *)
(*                                                                         *)
(* Text is a sequence of one-character strings.  Rule text is typed piece  *)
(* by piece and then parsed as a rule or as a pattern.  The matcher is not *)
(* in these two files: it hands over matches, which are then rendered.     *)
(***************************************************************************)
EXTENDS Integers, Sequences, FiniteSets, TLC

VARIABLES query, npieces, pc, pattern_res, template_res, rule_res,
          matches, edit_res

parse_vars == <<query, npieces, pc, pattern_res, template_res, rule_res>>

render_vars == <<matches, edit_res>>

vars == <<query, npieces, pc, pattern_res, template_res, rule_res, matches, edit_res>>

(***************************************************************************)
(* Bounds                                                                  *)
(***************************************************************************)
MaxPieces == 4

MaxMatches == 2

(***************************************************************************)
(* Text helpers                                                            *)
(***************************************************************************)
DELIM == <<"=", "=", ">", ">">>

STAND_IN_PREFIX == <<"_", "_", "p", "l", "a", "c", "e", "h", "o", "l", "d", "e", "r", "_">>

\* What the user types in one go.
Pieces ==
    { <<"$">>, <<"$", "a">>, <<"$", "b">>, <<"a">>, <<" ">>,
      <<"{", " ", "}">>, <<"!">>, DELIM, STAND_IN_PREFIX \o <<"a">> }

IdentChars == {"_", "a", "b", "c", "d", "e", "h", "l", "o", "p", "r"}

WhitespaceChars == {" "}

RECURSIVE TrimStart(_)
TrimStart(s) ==
    IF s # <<>> /\ Head(s) \in WhitespaceChars THEN TrimStart(Tail(s)) ELSE s

RECURSIVE TrimEnd(_)
TrimEnd(s) ==
    IF s # <<>> /\ s[Len(s)] \in WhitespaceChars
    THEN TrimEnd(SubSeq(s, 1, Len(s) - 1))
    ELSE s

Trim(s) == TrimEnd(TrimStart(s))

\* First index at or after i where DELIM starts in s, 0 when there is none.
RECURSIVE FindDelim(_, _)
FindDelim(s, i) ==
    IF i + Len(DELIM) - 1 > Len(s) THEN 0
    ELSE IF SubSeq(s, i, i + Len(DELIM) - 1) = DELIM THEN i
    ELSE FindDelim(s, i + 1)

\* Mutant of Split: splits at the first delimiter only, as splitn(2, ..) would.
Split_once(s) ==
    LET i == FindDelim(s, 1) IN
    IF i = 0 THEN <<s>>
    ELSE <<SubSeq(s, 1, i - 1), SubSeq(s, i + Len(DELIM), Len(s))>>

\* str::split("==>>"): the pieces between successive leftmost occurrences.
RECURSIVE Split(_)
Split(s) ==
    LET i == FindDelim(s, 1) IN
    IF i = 0 THEN <<s>>
    ELSE <<SubSeq(s, 1, i - 1)>> \o Split(SubSeq(s, i + Len(DELIM), Len(s)))

(***************************************************************************)
(* Results and errors                                                      *)
(***************************************************************************)
NoVal == [none |-> TRUE]

NoErr == [msg |-> "", arg |-> <<>>]

SsrError(m, a) == [msg |-> m, arg |-> a]

Ok(v) == [ok |-> TRUE, val |-> v, err |-> NoErr]

Err(e) == [ok |-> FALSE, val |-> NoVal, err |-> e]

NotEvaluated == [ok |-> FALSE, val |-> NoVal, err |-> SsrError("not evaluated", <<>>)]

None == [some |-> FALSE, node |-> NoVal]

Some(n) == [some |-> TRUE, node |-> n]

(***************************************************************************)
(* The lexer of ra_syntax                                                  *)
(***************************************************************************)
RECURSIVE RunLen(_, _, _)
RunLen(s, i, cls) ==
    IF i <= Len(s) /\ s[i] \in cls THEN 1 + RunLen(s, i + 1, cls) ELSE 0

PunctKind(c) ==
    CASE c = "$" -> "DOLLAR"
      [] c = "{" -> "L_CURLY"
      [] c = "}" -> "R_CURLY"
      [] c = "!" -> "BANG"
      [] c = "=" -> "EQ"
      [] c = ">" -> "R_ANGLE"
      [] OTHER -> "ERROR"

RECURSIVE RawTokensFrom(_, _)
RawTokensFrom(s, i) ==
    IF i > Len(s) THEN <<>>
    ELSE IF s[i] \in IdentChars THEN
        LET n == RunLen(s, i, IdentChars) IN
        <<[kind |-> IF n = 1 /\ s[i] = "_" THEN "UNDERSCORE" ELSE "IDENT", len |-> n]>>
            \o RawTokensFrom(s, i + n)
    ELSE IF s[i] \in WhitespaceChars THEN
        LET n == RunLen(s, i, WhitespaceChars) IN
        <<[kind |-> "WHITESPACE", len |-> n]>> \o RawTokensFrom(s, i + n)
    ELSE <<[kind |-> PunctKind(s[i]), len |-> 1]>> \o RawTokensFrom(s, i + 1)

\* A character the lexer has no token for is reported as a lexical error.
RECURSIVE LexErrorsFrom(_, _)
LexErrorsFrom(s, i) ==
    IF i > Len(s) THEN <<>>
    ELSE IF s[i] \notin IdentChars \cup WhitespaceChars /\ PunctKind(s[i]) = "ERROR"
         THEN <<i>> \o LexErrorsFrom(s, i + 1)
         ELSE LexErrorsFrom(s, i + 1)

ra_syntax_tokenize(s) == [tokens |-> RawTokensFrom(s, 1), errors |-> LexErrorsFrom(s, 1)]

(***************************************************************************)
(* parsing.rs                                                              *)
(***************************************************************************)
Token(k, t) == [kind |-> k, text |-> t]

RECURSIVE SliceTokens(_, _, _)
SliceTokens(source, raw_tokens, start) ==
    IF raw_tokens = <<>> THEN <<>>
    ELSE LET token_len == Head(raw_tokens).len IN
         <<Token(Head(raw_tokens).kind, SubSeq(source, start + 1, start + token_len))>>
             \o SliceTokens(source, Tail(raw_tokens), start + token_len)

tokenize(source) ==
    LET slice(lexed) ==
            IF lexed.errors # <<>>
            THEN Err(SsrError("Failed to parse pattern: {}", <<>>))
            ELSE Ok(SliceTokens(source, lexed.tokens, 0))
    IN  slice(ra_syntax_tokenize(source))

Placeholder_new(name) == [ident |-> name, stand_in_name |-> STAND_IN_PREFIX \o name]

ElemToken(t) == [tag |-> "Token", token |-> t, placeholder |-> NoVal]

ElemPlaceholder(p) == [tag |-> "Placeholder", token |-> NoVal, placeholder |-> p]

\* tokens.next() has already consumed the `$`; i is the position of the next token.
parse_placeholder(tokens, i) ==
    IF i > Len(tokens) THEN Err(SsrError("Placeholder ($) with no name", <<>>))
    ELSE IF tokens[i].kind = "IDENT" THEN Ok(Placeholder_new(tokens[i].text))
    ELSE Err(SsrError("Placeholders should be $name", <<>>))

\* Mutant of parse_pattern_loop: whitespace tokens are removed.
RECURSIVE parse_pattern_loop_skip_ws(_, _, _, _)
parse_pattern_loop_skip_ws(tokens, i, res, placeholder_names) ==
    IF i > Len(tokens) THEN Ok(res)
    ELSE IF tokens[i].kind = "DOLLAR" THEN
        LET push(placeholder) ==
                IF ~placeholder.ok THEN placeholder
                ELSE IF placeholder.val.ident \in placeholder_names
                THEN Err(SsrError("Name {} repeats more than once", placeholder.val.ident))
                ELSE parse_pattern_loop_skip_ws(tokens, i + 2,
                                                Append(res, ElemPlaceholder(placeholder.val)),
                                                placeholder_names \cup {placeholder.val.ident})
        IN  push(parse_placeholder(tokens, i + 1))
    ELSE IF tokens[i].kind = "WHITESPACE"
    THEN parse_pattern_loop_skip_ws(tokens, i + 1, res, placeholder_names)
    ELSE parse_pattern_loop_skip_ws(tokens, i + 1, Append(res, ElemToken(tokens[i])),
                                    placeholder_names)

\* Mutant of parse_pattern_loop: a repeated name is not looked for.
RECURSIVE parse_pattern_loop_no_dup_check(_, _, _, _)
parse_pattern_loop_no_dup_check(tokens, i, res, placeholder_names) ==
    IF i > Len(tokens) THEN Ok(res)
    ELSE IF tokens[i].kind = "DOLLAR" THEN
        LET push(placeholder) ==
                IF ~placeholder.ok THEN placeholder
                ELSE parse_pattern_loop_no_dup_check(tokens, i + 2,
                                                     Append(res, ElemPlaceholder(placeholder.val)),
                                                     placeholder_names)
        IN  push(parse_placeholder(tokens, i + 1))
    ELSE parse_pattern_loop_no_dup_check(tokens, i + 1, Append(res, ElemToken(tokens[i])),
                                         placeholder_names)

RECURSIVE parse_pattern_loop(_, _, _, _)
parse_pattern_loop(tokens, i, res, placeholder_names) ==
    IF i > Len(tokens) THEN Ok(res)
    ELSE IF tokens[i].kind = "DOLLAR" THEN
        LET push(placeholder) ==
                IF ~placeholder.ok THEN placeholder
                ELSE IF placeholder.val.ident \in placeholder_names
                THEN Err(SsrError("Name {} repeats more than once", placeholder.val.ident))
                ELSE parse_pattern_loop(tokens, i + 2,
                                        Append(res, ElemPlaceholder(placeholder.val)),
                                        placeholder_names \cup {placeholder.val.ident})
        IN  push(parse_placeholder(tokens, i + 1))
    ELSE parse_pattern_loop(tokens, i + 1, Append(res, ElemToken(tokens[i])),
                            placeholder_names)

parse_pattern(pattern_str) ==
    LET elements(tokens) ==
            IF ~tokens.ok THEN tokens
            ELSE parse_pattern_loop(tokens.val, 1, <<>>, {})
    IN  elements(tokenize(pattern_str))

RECURSIVE as_rust_code(_)
as_rust_code(tokens) ==
    IF tokens = <<>> THEN <<>>
    ELSE (IF Head(tokens).tag = "Token"
          THEN Head(tokens).token.text
          ELSE Head(tokens).placeholder.stand_in_name) \o as_rust_code(Tail(tokens))

\* The map as a set of (key, value) pairs with at most one pair per key:
\* insert overwrites an earlier entry with the same key.
RECURSIVE placeholders_by_stand_in_loop(_, _)
placeholders_by_stand_in_loop(tokens, res) ==
    IF tokens = <<>> THEN res
    ELSE IF Head(tokens).tag = "Placeholder" THEN
        LET insert(p) ==
                placeholders_by_stand_in_loop(Tail(tokens),
                    {e \in res : e[1] # p.stand_in_name} \cup {<<p.stand_in_name, p>>})
        IN  insert(Head(tokens).placeholder)
    ELSE placeholders_by_stand_in_loop(Tail(tokens), res)

placeholders_by_stand_in(tokens) == placeholders_by_stand_in_loop(tokens, {})

(***************************************************************************)
(* The grammar entry points of ra_syntax (ast::Expr::parse and the like).  *)
(* Each lexes the text itself, skips whitespace and accepts only when the  *)
(* whole text is one fragment of its kind.                                 *)
(***************************************************************************)
KindsOf(raw_tokens) ==
    LET ks == [i \in 1..Len(raw_tokens) |-> raw_tokens[i].kind] IN
    SelectSeq(ks, LAMBDA k : k # "WHITESPACE")

KindAt(ks, i) == IF i >= 1 /\ i <= Len(ks) THEN ks[i] ELSE "EOF"

\* A token tree body: the position of the first unmatched `}` (or the end).
RECURSIVE TokenTreeAt(_, _)
TokenTreeAt(ks, i) ==
    IF KindAt(ks, i) \in {"EOF", "R_CURLY"} THEN i
    ELSE IF KindAt(ks, i) = "L_CURLY" THEN
        LET j == TokenTreeAt(ks, i + 1) IN
        IF KindAt(ks, j) = "R_CURLY" THEN TokenTreeAt(ks, j + 1) ELSE 0
    ELSE TokenTreeAt(ks, i + 1)

\* name!{ ... }: the position after the call, 0 when there is none at i.
MacroCallAt(ks, i) ==
    IF KindAt(ks, i) = "IDENT" /\ KindAt(ks, i + 1) = "BANG" /\ KindAt(ks, i + 2) = "L_CURLY"
    THEN LET j == TokenTreeAt(ks, i + 3) IN
         IF j # 0 /\ KindAt(ks, j) = "R_CURLY" THEN j + 1 ELSE 0
    ELSE 0

\* Expressions: a macro call, a path, a record literal `a{}`, an empty block `{}`.
ExprAt(ks, i) ==
    IF MacroCallAt(ks, i) # 0 THEN MacroCallAt(ks, i)
    ELSE IF KindAt(ks, i) = "IDENT" THEN
        IF KindAt(ks, i + 1) = "L_CURLY" /\ KindAt(ks, i + 2) = "R_CURLY"
        THEN i + 3 ELSE i + 1
    ELSE IF KindAt(ks, i) = "L_CURLY" /\ KindAt(ks, i + 1) = "R_CURLY" THEN i + 2
    ELSE 0

\* Types: a macro call, a path, the placeholder type `_`.
TypeRefAt(ks, i) ==
    IF MacroCallAt(ks, i) # 0 THEN MacroCallAt(ks, i)
    ELSE IF KindAt(ks, i) \in {"IDENT", "UNDERSCORE"} THEN i + 1
    ELSE 0

\* Items: a macro call with a braced body.
ItemAt(ks, i) == MacroCallAt(ks, i)

\* Paths: a single segment.
PathAt(ks, i) == IF KindAt(ks, i) = "IDENT" THEN i + 1 ELSE 0

\* Patterns: a macro call, a binding, a record pattern `a{}`, the wildcard.
PatAt(ks, i) ==
    IF MacroCallAt(ks, i) # 0 THEN MacroCallAt(ks, i)
    ELSE IF KindAt(ks, i) = "IDENT" THEN
        IF KindAt(ks, i + 1) = "L_CURLY" /\ KindAt(ks, i + 2) = "R_CURLY"
        THEN i + 3 ELSE i + 1
    ELSE IF KindAt(ks, i) = "UNDERSCORE" THEN i + 1
    ELSE 0

FragmentEnd(kind, ks) ==
    CASE kind = "EXPR" -> ExprAt(ks, 1)
      [] kind = "TYPE_REF" -> TypeRefAt(ks, 1)
      [] kind = "ITEM" -> ItemAt(ks, 1)
      [] kind = "PATH" -> PathAt(ks, 1)
      [] kind = "PAT" -> PatAt(ks, 1)

\* X::parse(text).ok().map(|n| n.syntax().clone())
ParseFragment(kind, text) ==
    LET whole(ks) ==
            IF ks # <<>> /\ FragmentEnd(kind, ks) = Len(ks) + 1
            THEN Some([kind |-> kind, text |-> text])
            ELSE None
        parse(lexed) == IF lexed.errors = <<>> THEN whole(KindsOf(lexed.tokens)) ELSE None
    IN  parse(ra_syntax_tokenize(text))

RawSearchPattern_from_str(pattern_str) ==
    LET wrap(tokens) == IF ~tokens.ok THEN tokens ELSE Ok([tokens |-> tokens.val])
    IN  wrap(parse_pattern(pattern_str))

\* Mutant of SsrPattern_from_str: only the first interpretation that succeeds is kept.
SsrPattern_from_str_first_only(pattern_str) ==
    LET check(res) ==
            IF ~res.expr.some /\ ~res.type_ref.some /\ ~res.item.some
               /\ ~res.path.some /\ ~res.pattern.some
            THEN Err(SsrError("Pattern is not a valid Rust expression, type, item, path or pattern", <<>>))
            ELSE Ok(res)
        first(raw, expr, type_ref, item, path, pattern) ==
            check([expr |-> expr,
                   type_ref |-> IF expr.some THEN None ELSE type_ref,
                   item |-> IF expr.some \/ type_ref.some THEN None ELSE item,
                   path |-> IF expr.some \/ type_ref.some \/ item.some THEN None ELSE path,
                   pattern |-> IF expr.some \/ type_ref.some \/ item.some \/ path.some
                               THEN None ELSE pattern,
                   placeholders_by_stand_in |-> placeholders_by_stand_in(raw.tokens),
                   raw |-> raw])
        build(raw, raw_str) ==
            first(raw, ParseFragment("EXPR", raw_str), ParseFragment("TYPE_REF", raw_str),
                  ParseFragment("ITEM", raw_str), ParseFragment("PATH", raw_str),
                  ParseFragment("PAT", raw_str))
        compile(raw) == IF ~raw.ok THEN raw ELSE build(raw.val, as_rust_code(raw.val.tokens))
    IN  compile(RawSearchPattern_from_str(pattern_str))

SsrPattern_from_str(pattern_str) ==
    LET check(res) ==
            IF ~res.expr.some /\ ~res.type_ref.some /\ ~res.item.some
               /\ ~res.path.some /\ ~res.pattern.some
            THEN Err(SsrError("Pattern is not a valid Rust expression, type, item, path or pattern", <<>>))
            ELSE Ok(res)
        build(raw, raw_str) ==
            check([expr |-> ParseFragment("EXPR", raw_str),
                   type_ref |-> ParseFragment("TYPE_REF", raw_str),
                   item |-> ParseFragment("ITEM", raw_str),
                   path |-> ParseFragment("PATH", raw_str),
                   pattern |-> ParseFragment("PAT", raw_str),
                   placeholders_by_stand_in |-> placeholders_by_stand_in(raw.tokens),
                   raw |-> raw])
        compile(raw) == IF ~raw.ok THEN raw ELSE build(raw.val, as_rust_code(raw.val.tokens))
    IN  compile(RawSearchPattern_from_str(pattern_str))

SsrTemplate_from_str(pattern_str) ==
    LET validate(tokens) ==
            IF ~tokens.ok THEN tokens
            ELSE IF ~SsrPattern_from_str(pattern_str).ok
            THEN Err(SsrError("Replacement is not a valid Rust expression, type, item, path or pattern", <<>>))
            ELSE Ok([tokens |-> tokens.val])
    IN  validate(parse_pattern(pattern_str))

RECURSIVE Join(_, _)
Join(strs, sep) ==
    IF strs = <<>> THEN <<>>
    ELSE IF Len(strs) = 1 THEN strs[1]
    ELSE strs[1] \o sep \o Join(Tail(strs), sep)

DefinedPlaceholders(tokens) ==
    {tokens[i].placeholder.ident : i \in {j \in 1..Len(tokens) : tokens[j].tag = "Placeholder"}}

RECURSIVE UndefinedPlaceholders(_, _)
UndefinedPlaceholders(tokens, defined_placeholders) ==
    IF tokens = <<>> THEN <<>>
    ELSE (IF Head(tokens).tag = "Placeholder"
             /\ Head(tokens).placeholder.ident \notin defined_placeholders
          THEN <<(<<"$">> \o Head(tokens).placeholder.ident)>>
          ELSE <<>>) \o UndefinedPlaceholders(Tail(tokens), defined_placeholders)

\* Mutant of validate_rule: nothing is checked.
validate_rule_unchecked(rule) == Ok(NoVal)

\* Mutant of validate_rule: only the first undefined placeholder is reported.
validate_rule_first_only(rule) ==
    LET defined_placeholders == DefinedPlaceholders(rule.pattern.raw.tokens)
        report(undefined) ==
            IF undefined # <<>>
            THEN Err(SsrError("Replacement contains undefined placeholders: {}", undefined[1]))
            ELSE Ok(NoVal)
    IN  report(UndefinedPlaceholders(rule.template.tokens, defined_placeholders))

validate_rule(rule) ==
    LET defined_placeholders == DefinedPlaceholders(rule.pattern.raw.tokens)
        report(undefined) ==
            IF undefined # <<>>
            THEN Err(SsrError("Replacement contains undefined placeholders: {}",
                              Join(undefined, <<",", " ">>)))
            ELSE Ok(NoVal)
    IN  report(UndefinedPlaceholders(rule.template.tokens, defined_placeholders))

\* The locals of SsrRule::from_str: the two halves' parse results and the
\* function's result.  A half that is never parsed is NotEvaluated.
SsrRule_from_str(q) ==
    LET validated(p, t, rule, v) ==
            [pattern |-> p, template |-> t, rule |-> IF ~v.ok THEN v ELSE Ok(rule)]
        build(p, t) ==
            IF ~p.ok THEN [pattern |-> p, template |-> NotEvaluated, rule |-> p]
            ELSE IF ~t.ok THEN [pattern |-> p, template |-> t, rule |-> t]
            ELSE validated(p, t, [pattern |-> p.val, template |-> t.val],
                           validate_rule([pattern |-> p.val, template |-> t.val]))
        halves(it) ==
            IF Len(it) < 2
            THEN [pattern |-> NotEvaluated, template |-> NotEvaluated,
                  rule |-> Err(SsrError("Cannot find delemiter ==>>", <<>>))]
            ELSE IF Len(it) > 2
            THEN [pattern |-> NotEvaluated, template |-> NotEvaluated,
                  rule |-> Err(SsrError("More than one delimiter found", <<>>))]
            ELSE build(SsrPattern_from_str(Trim(it[1])), SsrTemplate_from_str(Trim(it[2])))
    IN  halves(Split(q))

(***************************************************************************)
(* ra_text_edit: TextEditBuilder::finish and TextEdit::apply               *)
(***************************************************************************)
Indel(range, text) == [delete |-> range, insert |-> text]

EditOk(indels) == [ok |-> TRUE, panic |-> "", indels |-> indels]

EditPanic(why) == [ok |-> FALSE, panic |-> why, indels |-> <<>>]

IndelLeq(a, b) ==
    \/ a.delete[1] < b.delete[1]
    \/ a.delete[1] = b.delete[1] /\ a.delete[2] <= b.delete[2]

\* Stable insertion of x into a sequence sorted by (start, end).
RECURSIVE InsertSorted(_, _)
InsertSorted(sorted, x) ==
    IF sorted = <<>> THEN <<x>>
    ELSE IF IndelLeq(sorted[Len(sorted)], x) THEN Append(sorted, x)
    ELSE Append(InsertSorted(SubSeq(sorted, 1, Len(sorted) - 1), x), sorted[Len(sorted)])

RECURSIVE SortIndels(_)
SortIndels(indels) ==
    IF indels = <<>> THEN <<>>
    ELSE InsertSorted(SortIndels(SubSeq(indels, 1, Len(indels) - 1)), indels[Len(indels)])

check_disjoint(sorted) ==
    \A k \in 1..(Len(sorted) - 1) : sorted[k].delete[2] <= sorted[k + 1].delete[1]

\* finish(): sort the indels by range and assert that they are disjoint.
TextEditBuilder_finish(indels) ==
    LET assert_disjoint(sorted) ==
            IF check_disjoint(sorted) THEN EditOk(sorted) ELSE EditPanic("overlapping edits")
    IN  assert_disjoint(SortIndels(indels))

\* apply(): copy the text between the indels and the inserted texts, left to right.
RECURSIVE ApplyFrom(_, _, _)
ApplyFrom(text, indels, prev) ==
    IF indels = <<>> THEN SubSeq(text, prev + 1, Len(text))
    ELSE LET d == Head(indels).delete IN
         SubSeq(text, prev + 1, d[1]) \o Head(indels).insert
             \o ApplyFrom(text, Tail(indels), d[2])

TextEdit_apply(indels, text) ==
    IF \E k \in 1..Len(indels) : indels[k].delete[2] > Len(text)
    THEN [ok |-> FALSE, panic |-> "edit out of bounds", out |-> <<>>]
    ELSE [ok |-> TRUE, panic |-> "", out |-> ApplyFrom(text, indels, 0)]

(***************************************************************************)
(* The matcher's output (crate::Match, crate::SsrMatches)                  *)
(*                                                                         *)
(* The match tree is kept flat: matches[i].parent is 0 for a top-level     *)
(* match, else the index of the match whose placeholder matches[i].pvar    *)
(* holds it in its inner_matches.  Offsets count characters from 0; a      *)
(* range <<s, e>> is the half-open [s, e).                                 *)
(***************************************************************************)
\* The file's text; "#" stands for a comment.
Source == <<"x", "#", "y">>

CommentChars == {"#"}

RuleTexts ==
    { <<"$", "a", "{", "}">> \o DELIM \o <<"a", "!", "{", "$", "a", "}">>,
      <<"$", "a", " ">> \o DELIM \o <<" ", "a">>,
      <<"a">> \o DELIM \o <<"$", "a">> }

\* The rules the matcher works with: the rule texts that SsrRule::from_str accepts.
Rules == {r.val : r \in {p \in {SsrRule_from_str(q).rule : q \in RuleTexts} : p.ok}}

Ranges(lo, hi) == {<<s, e>> \in (lo..hi) \X (lo..hi) : s < e}

node_text(range) == SubSeq(Source, range[1] + 1, range[2])

\* TextRange::checked_sub(TextSize): None when the start would underflow.
checked_sub(range, offset) ==
    IF range[1] < offset THEN None ELSE Some(<<range[1] - offset, range[2] - offset>>)

InnerMatches(ms, i, ident) ==
    SelectSeq([k \in 1..Len(ms) |-> k],
              LAMBDA k : ms[k].parent = i /\ ms[k].pvar = ident)

TopLevel(ms) == SelectSeq([k \in 1..Len(ms) |-> k], LAMBDA k : ms[k].parent = 0)

(***************************************************************************)
(* replacing.rs                                                            *)
(***************************************************************************)
RenderOk(out) == [ok |-> TRUE, panic |-> "", out |-> out]

RenderPanic(why) == [ok |-> FALSE, panic |-> why, out |-> <<>>]

RECURSIVE ConcatAll(_)
ConcatAll(texts) == IF texts = <<>> THEN <<>> ELSE Head(texts) \o ConcatAll(Tail(texts))

RECURSIVE render_replace(_, _)
RECURSIVE render_tokens(_, _, _, _)
RECURSIVE matches_to_edit_at_offset(_, _, _)
RECURSIVE replace_all(_, _, _, _)

\* Mutant of replace_all: the ranges are left absolute.
RECURSIVE replace_all_absolute(_, _, _, _)
replace_all_absolute(ms, idxs, relative_start, indels) ==
    IF idxs = <<>> THEN EditOk(indels)
    ELSE
        LET m == ms[Head(idxs)]
            replace(text) ==
                IF ~text.ok THEN EditPanic(text.panic)
                ELSE replace_all_absolute(ms, Tail(idxs), relative_start,
                                          Append(indels, Indel(m.range, text.out)))
        IN  replace(render_replace(ms, Head(idxs)))

\* The loop of matches_to_edit_at_offset: one edit_builder.replace per match.
replace_all(ms, idxs, relative_start, indels) ==
    IF idxs = <<>> THEN EditOk(indels)
    ELSE
        LET m == ms[Head(idxs)]
            replace(range, text) ==
                IF ~range.some THEN EditPanic("unwrap on None")
                ELSE IF ~text.ok THEN EditPanic(text.panic)
                ELSE replace_all(ms, Tail(idxs), relative_start,
                                 Append(indels, Indel(range.node, text.out)))
        IN  replace(checked_sub(m.range, relative_start), render_replace(ms, Head(idxs)))

\* Mutant of matches_to_edit_at_offset: the edits are returned as collected.
matches_to_edit_at_offset_unchecked(ms, idxs, relative_start) ==
    replace_all(ms, idxs, relative_start, <<>>)

matches_to_edit_at_offset(ms, idxs, relative_start) ==
    LET finish(edit_builder) ==
            IF ~edit_builder.ok THEN edit_builder
            ELSE TextEditBuilder_finish(edit_builder.indels)
    IN  finish(replace_all(ms, idxs, relative_start, <<>>))

matches_to_edit(ms) == matches_to_edit_at_offset(ms, TopLevel(ms), 0)

\* The captured text of a placeholder before its inner matches are applied.
matched_text_of(match_info, placeholder_value) ==
    IF placeholder_value.has_node THEN RenderOk(node_text(placeholder_value.range))
    ELSE
        LET match_start == match_info.range[1]
            slice(relative_range, text) ==
                IF ~relative_range.some THEN RenderPanic("unwrap on None")
                ELSE IF relative_range.node[2] > Len(text)
                THEN RenderPanic("slice out of bounds")
                ELSE RenderOk(SubSeq(text, relative_range.node[1] + 1, relative_range.node[2]))
        IN  slice(checked_sub(placeholder_value.range, match_start),
                  node_text(match_info.range))

\* The loop over match_info.template.tokens.
render_tokens(ms, i, tokens, out) ==
    IF tokens = <<>> THEN RenderOk(out)
    ELSE IF Head(tokens).tag = "Token"
    THEN render_tokens(ms, i, Tail(tokens), out \o Head(tokens).token.text)
    ELSE
        LET p == Head(tokens).placeholder
            push(applied) ==
                IF ~applied.ok THEN applied
                ELSE render_tokens(ms, i, Tail(tokens), out \o applied.out)
            apply(matched_text, edit) ==
                IF ~matched_text.ok THEN matched_text
                ELSE IF ~edit.ok THEN RenderPanic(edit.panic)
                ELSE push(TextEdit_apply(edit.indels, matched_text.out))
            render(placeholder_value) ==
                apply(matched_text_of(ms[i], placeholder_value),
                      matches_to_edit_at_offset(ms, InnerMatches(ms, i, p.ident),
                                                placeholder_value.range[1]))
        IN  IF p.ident \notin DOMAIN ms[i].placeholder_values
            THEN RenderPanic("replacement referenced unknown placeholder")
            ELSE render(ms[i].placeholder_values[p.ident])

\* Mutant of render_replace: the ignored comments are left out.
render_replace_no_comments(ms, i) == render_tokens(ms, i, ms[i].template.tokens, <<>>)

render_replace(ms, i) ==
    LET with_comments(out) ==
            IF ~out.ok THEN out
            ELSE RenderOk(out.out \o ConcatAll(ms[i].ignored_comments))
    IN  with_comments(render_tokens(ms, i, ms[i].template.tokens, <<>>))

(***************************************************************************)
(* Parsing: the rule text is typed, then parsed as a rule or as a pattern  *)
(***************************************************************************)
NotRendered == [ok |-> FALSE, panic |-> "not rendered", indels |-> <<>>]

InitParse ==
    /\ matches = <<>>
    /\ edit_res = NotRendered
    /\ query = <<>>
    /\ npieces = 0
    /\ pc = "typing"
    /\ pattern_res = NotEvaluated
    /\ template_res = NotEvaluated
    /\ rule_res = NotEvaluated

TypePiece ==
    /\ pc = "typing"
    /\ npieces < MaxPieces
    /\ \E p \in Pieces : query' = query \o p
    /\ npieces' = npieces + 1
    /\ UNCHANGED <<pc, pattern_res, template_res, rule_res, matches, edit_res>>

\* "<query>".parse::<SsrRule>()
ParseRule ==
    /\ pc = "typing"
    /\ LET result(r) ==
                /\ pattern_res' = r.pattern
                /\ template_res' = r.template
                /\ rule_res' = r.rule
        IN  result(SsrRule_from_str(query))
    /\ pc' = "rule"
    /\ UNCHANGED <<query, npieces, matches, edit_res>>

\* "<query>".parse::<SsrPattern>()
ParsePattern ==
    /\ pc = "typing"
    /\ pattern_res' = SsrPattern_from_str(query)
    /\ pc' = "pattern"
    /\ UNCHANGED <<query, npieces, template_res, rule_res, matches, edit_res>>

NextParse == TypePiece \/ ParseRule \/ ParsePattern

Spec == InitParse /\ [][NextParse]_vars

(***************************************************************************)
(* Rendering: the matcher hands over matches, then they are rendered       *)
(***************************************************************************)
InitRender ==
    /\ matches = <<>>
    /\ edit_res = NotRendered
    /\ query = <<>>
    /\ npieces = 0
    /\ pc = "matching"
    /\ pattern_res = NotEvaluated
    /\ template_res = NotEvaluated
    /\ rule_res = NotEvaluated

\* Every placeholder the rule's pattern defines is bound to a range inside the match.
Bindings(rule, range) ==
    [DefinedPlaceholders(rule.pattern.raw.tokens)
        -> [range : Ranges(range[1], range[2]), has_node : BOOLEAN]]

\* The comments inside the match that the pattern skipped over: those that no
\* placeholder captured.
IgnoredComments(range, values) ==
    LET skipped(k) == /\ Source[k] \in CommentChars
                      /\ k - 1 >= range[1] /\ k <= range[2]
                      /\ \A id \in DOMAIN values :
                            ~(k - 1 >= values[id].range[1] /\ k <= values[id].range[2])
        at == SelectSeq([k \in 1..Len(Source) |-> k], skipped)
    IN  [j \in 1..Len(at) |-> <<Source[at[j]]>>]

NewMatch(parent, pvar, range, rule, values) ==
    [parent |-> parent, pvar |-> pvar, range |-> range, template |-> rule.template,
     placeholder_values |-> values, ignored_comments |-> IgnoredComments(range, values)]

\* The matcher finds a match in the file.
AddMatch ==
    /\ pc = "matching"
    /\ Len(matches) < MaxMatches
    /\ \E range \in Ranges(0, Len(Source)), rule \in Rules :
         \E values \in Bindings(rule, range) :
            matches' = Append(matches, NewMatch(0, <<>>, range, rule, values))
    /\ UNCHANGED <<query, npieces, pc, pattern_res, template_res, rule_res, edit_res>>

\* The matcher finds a match inside the text a placeholder of an earlier match captured.
AddInnerMatch ==
    /\ pc = "matching"
    /\ Len(matches) < MaxMatches
    /\ \E i \in 1..Len(matches) : \E ident \in DOMAIN matches[i].placeholder_values :
         LET outer == matches[i].placeholder_values[ident].range IN
         \E range \in Ranges(outer[1], outer[2]), rule \in Rules :
            \E values \in Bindings(rule, range) :
                matches' = Append(matches, NewMatch(i, ident, range, rule, values))
    /\ UNCHANGED <<query, npieces, pc, pattern_res, template_res, rule_res, edit_res>>

\* matches_to_edit(&matches)
Render ==
    /\ pc = "matching"
    /\ edit_res' = matches_to_edit(matches)
    /\ pc' = "rendered"
    /\ UNCHANGED <<query, npieces, pattern_res, template_res, rule_res, matches>>

NextRender == AddMatch \/ AddInnerMatch \/ Render

SpecRender == InitRender /\ [][NextRender]_vars

(***************************************************************************)
(* Reference notions the properties are stated with                        *)
(***************************************************************************)
SetMin(S) == CHOOSE x \in S : \A y \in S : x <= y

SetMax(S) == CHOOSE x \in S : \A y \in S : y <= x

\* Every position where the delimiter text occurs in q.
DelimPositions(q) ==
    {i \in 1..Len(q) : i + 3 <= Len(q) /\ <<q[i], q[i + 1], q[i + 2], q[i + 3]>> = DELIM}

\* s without its leading and trailing whitespace.
Trimmed(s) ==
    LET solid == {i \in 1..Len(s) : s[i] # " "} IN
    IF solid = {} THEN <<>> ELSE SubSeq(s, SetMin(solid), SetMax(solid))

\* The two halves of a rule text with exactly one delimiter.
PatternHalf(q) == Trimmed(SubSeq(q, 1, SetMin(DelimPositions(q)) - 1))

TemplateHalf(q) == Trimmed(SubSeq(q, SetMin(DelimPositions(q)) + 4, Len(q)))

DelimiterErrors == {"Cannot find delemiter ==>>", "More than one delimiter found"}

\* The text that was handed to SsrPattern::from_str in this state.
PatternParsed == pc = "pattern" \/ (pc = "rule" /\ pattern_res # NotEvaluated)

PatternText == IF pc = "pattern" THEN query ELSE PatternHalf(query)

TemplateParsed == pc = "rule" /\ template_res # NotEvaluated

IdentsOf(tokens) ==
    {tokens[i].placeholder.ident : i \in {j \in 1..Len(tokens) : tokens[j].tag = "Placeholder"}}

\* The elements written back as lexer tokens: a placeholder is `$` and its name.
RECURSIVE Expand(_)
Expand(elems) ==
    IF elems = <<>> THEN <<>>
    ELSE (IF Head(elems).tag = "Placeholder"
          THEN <<Token("DOLLAR", <<"$">>), Token("IDENT", Head(elems).placeholder.ident)>>
          ELSE <<Head(elems).token>>) \o Expand(Tail(elems))

VerbatimElements(elems, text) ==
    /\ Expand(elems) = tokenize(text).val
    /\ \A i \in 1..Len(elems) :
        /\ elems[i].tag = "Token" => elems[i].token.kind # "DOLLAR"
        /\ elems[i].tag = "Placeholder" =>
             elems[i].placeholder.stand_in_name = STAND_IN_PREFIX \o elems[i].placeholder.ident

\* The uses of `$` in a token sequence, left to right; a `$` takes the token after it.
RECURSIVE DollarUses(_, _)
DollarUses(toks, i) ==
    IF i > Len(toks) THEN <<>>
    ELSE IF toks[i].kind # "DOLLAR" THEN DollarUses(toks, i + 1)
    ELSE IF i + 1 <= Len(toks) /\ toks[i + 1].kind = "IDENT"
         THEN <<[named |-> TRUE, name |-> toks[i + 1].text]>> \o DollarUses(toks, i + 2)
         ELSE <<[named |-> FALSE, name |-> <<>>]>> \o DollarUses(toks, i + 2)

UsesOf(text) == DollarUses(tokenize(text).val, 1)

\* The positions in the uses where a name is used for the second time or later.
Repeats(uses) ==
    {j \in 1..Len(uses) :
        uses[j].named /\ \E i \in 1..(j - 1) : uses[i].named /\ uses[i].name = uses[j].name}

DuplicateError(name) == Err(SsrError("Name {} repeats more than once", name))

\* text with every `$` replaced by the stand-in prefix.
RECURSIVE StandInText(_)
StandInText(text) ==
    IF text = <<>> THEN <<>>
    ELSE (IF Head(text) = "$" THEN STAND_IN_PREFIX ELSE <<Head(text)>>)
             \o StandInText(Tail(text))

Kinds == {"EXPR", "TYPE_REF", "ITEM", "PATH", "PAT"}

TaggedParse(p, kind) ==
    CASE kind = "EXPR" -> p.expr
      [] kind = "TYPE_REF" -> p.type_ref
      [] kind = "ITEM" -> p.item
      [] kind = "PATH" -> p.path
      [] kind = "PAT" -> p.pattern

\* The names a template uses and a pattern lacks, in order of first use.
RECURSIVE FirstSeenUndefined(_, _, _)
FirstSeenUndefined(tokens, defined, seen) ==
    IF tokens = <<>> THEN <<>>
    ELSE IF Head(tokens).tag = "Placeholder"
            /\ Head(tokens).placeholder.ident \notin defined \cup seen
    THEN <<Head(tokens).placeholder.ident>>
            \o FirstSeenUndefined(Tail(tokens), defined, seen \cup {Head(tokens).placeholder.ident})
    ELSE FirstSeenUndefined(Tail(tokens), defined, seen)

RECURSIVE ListedNames(_)
ListedNames(names) ==
    IF names = <<>> THEN <<>>
    ELSE IF Len(names) = 1 THEN <<"$">> \o names[1]
    ELSE ListedNames(SubSeq(names, 1, Len(names) - 1)) \o <<",", " ", "$">> \o names[Len(names)]

ExpectedUndefined ==
    FirstSeenUndefined(template_res.val.tokens, IdentsOf(pattern_res.val.raw.tokens), {})

(***************************************************************************)
(* Properties of parsing                                                   *)
(***************************************************************************)

\* C3: the placeholder lookup of render_replace never misses for an accepted
\* rule: every placeholder of the rule's template is defined by its pattern,
\* and rendering a match of the rule that binds every placeholder of the
\* pattern never reaches the unknown-placeholder abort.
C3_LookupNeverMisses ==
    (pc = "rule" /\ rule_res.ok) =>
        /\ IdentsOf(rule_res.val.template.tokens) \subseteq IdentsOf(rule_res.val.pattern.raw.tokens)
        /\ \A range \in Ranges(0, Len(Source)) : \A values \in Bindings(rule_res.val, range) :
             render_replace(<<NewMatch(0, <<>>, range, rule_res.val, values)>>, 1).panic
                 # "replacement referenced unknown placeholder"

C3_Witness ==
    /\ pc = "rule" /\ rule_res.ok
    /\ IdentsOf(rule_res.val.template.tokens) # {}
    /\ Cardinality(IdentsOf(rule_res.val.pattern.raw.tokens)) = 2

\* C4: when both halves parse and the template uses a placeholder the pattern
\* lacks, from_str fails with the undefined-placeholder error, listing exactly
\* those names, each once, in order of first appearance in the template.
C4_UndefinedListed ==
    (pc = "rule" /\ pattern_res.ok /\ template_res.ok /\ ExpectedUndefined # <<>>) =>
        rule_res = Err(SsrError("Replacement contains undefined placeholders: {}",
                                ListedNames(ExpectedUndefined)))

C4_Witness ==
    /\ pc = "rule" /\ pattern_res.ok /\ template_res.ok
    /\ Len(ExpectedUndefined) = 2
    /\ ~rule_res.ok

\* C6: in a compiled pattern the stand-in names are unique and no literal
\* token of the pattern has the text of a placeholder's stand-in name.
C6_StandInsNeverCollide ==
    (PatternParsed /\ pattern_res.ok) =>
        LET elems == pattern_res.val.raw.tokens
            holders == {i \in 1..Len(elems) : elems[i].tag = "Placeholder"}
        IN  /\ \A i, j \in holders :
                 elems[i].placeholder.stand_in_name = elems[j].placeholder.stand_in_name => i = j
            /\ \A i \in holders : \A j \in 1..Len(elems) :
                 elems[j].tag = "Token" =>
                     elems[j].token.text # elems[i].placeholder.stand_in_name

\* C7: a rule text with no delimiter or with two or more fails with a
\* delimiter error and nothing is parsed; with exactly one, the trimmed text
\* before it is parsed as the pattern and the trimmed text after it as the
\* template.
C7_Delimiter ==
    pc = "rule" =>
        LET n == Cardinality(DelimPositions(query)) IN
        /\ n = 0 => rule_res = Err(SsrError("Cannot find delemiter ==>>", <<>>))
        /\ n >= 2 => rule_res = Err(SsrError("More than one delimiter found", <<>>))
        /\ n # 1 => pattern_res = NotEvaluated /\ template_res = NotEvaluated
        /\ n = 1 =>
            /\ rule_res.err.msg \notin DelimiterErrors
            /\ pattern_res = SsrPattern_from_str(PatternHalf(query))
            /\ pattern_res.ok => template_res = SsrTemplate_from_str(TemplateHalf(query))
            /\ rule_res.ok =>
                 rule_res.val = [pattern |-> pattern_res.val, template |-> template_res.val]

C7_Witness ==
    /\ pc = "rule"
    /\ Cardinality(DelimPositions(query)) = 2
    /\ rule_res = Err(SsrError("More than one delimiter found", <<>>))

DuplicateReported(text, res) ==
    LET uses == UsesOf(text) IN
    Repeats(uses) # {} =>
        \E j \in Repeats(uses) : res = DuplicateError(uses[j].name)

C9_DuplicateAlwaysReported ==
    /\ PatternParsed => DuplicateReported(PatternText, pattern_res)
    /\ TemplateParsed => DuplicateReported(TemplateHalf(query), template_res)

\* C9 as amended: when every `$` before the first repeated use is followed
\* by an identifier, parsing fails with the duplicate-placeholder error naming
\* the identifier of that first repeated use.
FirstDuplicateReported(text, res) ==
    LET uses == UsesOf(text) IN
    (Repeats(uses) # {} /\ \A i \in 1..SetMin(Repeats(uses)) : uses[i].named) =>
        res = DuplicateError(uses[SetMin(Repeats(uses))].name)

C9_FirstDuplicateReported ==
    /\ PatternParsed => FirstDuplicateReported(PatternText, pattern_res)
    /\ TemplateParsed => FirstDuplicateReported(TemplateHalf(query), template_res)

C9_Witness ==
    /\ TemplateParsed
    /\ Repeats(UsesOf(TemplateHalf(query))) # {}
    /\ template_res = DuplicateError(<<"b">>)

\* C10: a pattern whose tokens parse compiles to exactly the interpretations
\* that succeed: each of the five tagged parses is present iff its entry
\* point accepts the text with the stand-ins substituted, and compilation
\* fails with the invalid-pattern error iff none accepts it.
C10_KeepsEveryParse ==
    (PatternParsed /\ parse_pattern(PatternText).ok) =>
        LET code == StandInText(PatternText)
            accepted == {k \in Kinds : ParseFragment(k, code).some}
        IN  /\ pattern_res.ok <=> accepted # {}
            /\ pattern_res.ok =>
                 \A k \in Kinds : TaggedParse(pattern_res.val, k) = ParseFragment(k, code)
            /\ ~pattern_res.ok =>
                 pattern_res = Err(SsrError(
                     "Pattern is not a valid Rust expression, type, item, path or pattern", <<>>))

C10_Witness ==
    /\ PatternParsed /\ pattern_res.ok
    /\ pattern_res.val.item.some /\ pattern_res.val.expr.some
    /\ ~pattern_res.val.path.some
    /\ IdentsOf(pattern_res.val.raw.tokens) # {}

(***************************************************************************)
(* Properties of rendering                                                 *)
(***************************************************************************)
Overlap(a, b) == a[1] < b[2] /\ b[1] < a[2]

Siblings(ms, i, j) == i # j /\ ms[i].parent = ms[j].parent /\ ms[i].pvar = ms[j].pvar

NoSiblingOverlap(ms) ==
    \A i, j \in 1..Len(ms) : Siblings(ms, i, j) => ~Overlap(ms[i].range, ms[j].range)

DisjointIndels(indels) ==
    \A i, j \in 1..Len(indels) : i # j => ~Overlap(indels[i].delete, indels[j].delete)

UsesPlaceholder(template, ident) ==
    \E k \in 1..Len(template.tokens) :
        template.tokens[k].tag = "Placeholder" /\ template.tokens[k].placeholder.ident = ident

\* Whether match i is handed to a matches_to_edit_at_offset call: a top-level
\* match is, and so is an inner match of a placeholder that the template of a
\* rendered match uses.
RECURSIVE IsRendered(_, _)
IsRendered(ms, i) ==
    \/ ms[i].parent = 0
    \/ /\ ms[i].parent # 0
       /\ UsesPlaceholder(ms[ms[i].parent].template, ms[i].pvar)
       /\ IsRendered(ms, ms[i].parent)

\* The text inserted for the top-level match i, if the edit has one.
InsertedFor(i) ==
    {edit_res.indels[k].insert :
        k \in {n \in 1..Len(edit_res.indels) : edit_res.indels[n].delete = matches[i].range}}

LiteralText(template) ==
    ConcatAll([k \in 1..Len(template.tokens) |-> template.tokens[k].token.text])

\* The rendering of match i, computed on the file's text: each placeholder's
\* captured text T = Source[s, e) with, for every inner match M at [a, b), the
\* part [a - s, b - s) of T replaced by M's rendering, rightmost first.
RECURSIVE Expected(_, _)
RECURSIVE ExpectedCapture(_, _, _, _)
ExpectedCapture(ms, text, s, inner) ==
    IF inner = {} THEN text
    ELSE LET k == CHOOSE x \in inner : \A y \in inner : ms[y].range[1] <= ms[x].range[1]
             r == ms[k].range[1] - s
             len == ms[k].range[2] - ms[k].range[1]
         IN  ExpectedCapture(ms,
                 SubSeq(text, 1, r) \o Expected(ms, k) \o SubSeq(text, r + len + 1, Len(text)),
                 s, inner \ {k})

Expected(ms, i) ==
    LET part(el) ==
            IF el.tag = "Token" THEN el.token.text
            ELSE LET v == ms[i].placeholder_values[el.placeholder.ident] IN
                 ExpectedCapture(ms, SubSeq(Source, v.range[1] + 1, v.range[2]), v.range[1],
                     {k \in 1..Len(ms) : ms[k].parent = i /\ ms[k].pvar = el.placeholder.ident})
        tokens == ms[i].template.tokens
    IN  ConcatAll([k \in 1..Len(tokens) |-> part(tokens[k])])
            \o ConcatAll(ms[i].ignored_comments)

\* C1: an inner match M at [s + r, s + r + len) inside the text T that a
\* placeholder captured at offset s is rendered into T at the local position
\* r, once: when no siblings overlap, rendering succeeds and the text
\* inserted for every top-level match is its template with each placeholder
\* replaced by its captured text in which [r, r + len) is M's rendering.
C1_InnerEditsAnchoredOnce ==
    (pc = "rendered" /\ NoSiblingOverlap(matches)) =>
        /\ edit_res.ok
        /\ \A i \in 1..Len(matches) :
             matches[i].parent = 0 => InsertedFor(i) = {Expected(matches, i)}

C1_Witness ==
    /\ pc = "rendered" /\ edit_res.ok
    /\ \E i, k \in 1..Len(matches) :
        /\ matches[i].parent = 0 /\ matches[k].parent = i
        /\ UsesPlaceholder(matches[i].template, matches[k].pvar)
        /\ matches[i].placeholder_values[matches[k].pvar].range[1] > 0
        /\ matches[k].range[1] > matches[i].placeholder_values[matches[k].pvar].range[1]
        /\ ~matches[i].placeholder_values[matches[k].pvar].has_node

C5_LiteralTemplateUnchanged ==
    (pc = "rendered" /\ edit_res.ok) =>
        \A i \in 1..Len(matches) :
            (matches[i].parent = 0 /\ IdentsOf(matches[i].template.tokens) = {}) =>
                InsertedFor(i) = {LiteralText(matches[i].template)}

\* C5 as amended: such a match renders to the template's literal text
\* followed by the text of the match's ignored comments, whatever its
\* placeholder values are.
C5_LiteralTemplateThenComments ==
    (pc = "rendered" /\ edit_res.ok) =>
        \A i \in 1..Len(matches) :
            (matches[i].parent = 0 /\ IdentsOf(matches[i].template.tokens) = {}) =>
                InsertedFor(i) = {LiteralText(matches[i].template)
                                     \o ConcatAll(matches[i].ignored_comments)}

C5_Witness ==
    /\ pc = "rendered" /\ edit_res.ok
    /\ \E i \in 1..Len(matches) :
        /\ matches[i].parent = 0 /\ IdentsOf(matches[i].template.tokens) = {}
        /\ matches[i].ignored_comments # <<>>
        /\ DOMAIN matches[i].placeholder_values # {}

====
